---- MODULE Spec2Model ----
(***************************************************************************)
(* NbLayoutComponent (layout.component.ts): the layout shell of the theme  *)
(* framework.  One shell instance, the document body it writes to, the     *)
(* theme service streams it subscribes to and the spinner service loader   *)
(* it registers.  rxjs Subject.next delivers synchronously to the          *)
(* observers subscribed at the time of the call.                           *)
(***************************************************************************)
EXTENDS Integers, Sequences, FiniteSets, TLC

\* ------------------------------------------------------------------ bounds
\* append-to-top / clear-top requests the application issues
MaxReq == 3
\* window resize events handled by one shell
MaxResize == 2

\* ------------------------------------------------------------- input sets
\* JavaScript null (theme.previous of the first theme activation)
Null == "null"
ThemeNames == {"a", "b"}
LayoutClasses == {"x"}
Components == {"Spinner", "Modal"}
Widths == {600, 1200}

\* Values a template may bind to a boolean @Input: true, false, a bare
\* attribute (the empty string), "true", "false".
JsTrue == [type |-> "boolean", str |-> "true"]
JsFalse == [type |-> "boolean", str |-> "false"]
InputValues ==
  {JsTrue, JsFalse,
   [type |-> "string", str |-> ""],
   [type |-> "string", str |-> "true"],
   [type |-> "string", str |-> "false"]}

AllSubscriptions == {"theme", "appendClass", "removeClass", "append", "clear"}
BroadcastKinds == {"theme", "appendClass", "removeClass", "appendTop", "clearTop"}

VARIABLES
  phase,            \* "none" | "constructed" | "attached" | "destroyed"
  centerValue,      \* NbLayoutComponent.centerValue
  windowModeValue,  \* NbLayoutComponent.windowModeValue
  withScrollValue,  \* NbLayoutComponent.withScrollValue
  bodyOverflow,     \* document body's inline overflow style ("" = never set)
  bodyClasses,      \* document body's class list
  elClasses,        \* class list of the shell's host element
  subs,             \* the shell's open subscriptions
  afterViewInit,    \* current value of the BehaviorSubject afterViewInit$
  loader,           \* promise given to registerLoader: "none"|"pending"|"resolved"
  veryTopRef,       \* instances in the layoutTopDynamicArea view container
  created,          \* component instances created so far
  listeners,        \* result channels of the top requests, in emission order
  innerWidth,       \* window.innerWidth
  widthReports,     \* widths passed to themeService.changeWindowWidth
  \* ---- observations of the run, never read by the shell
  resizeSeen,       \* widths of the resize events dispatched to the shell
  themeLast,        \* name of the last theme event dispatched to the live shell
  themeBefore,      \* name of the theme event dispatched before that one
  themeChained,     \* every such event had previous = name of the one before
  scrollSet,        \* a withScroll or windowMode setting has happened
  widthAtConstruct, \* window.innerWidth when the constructor ran (0 before)
  destroyClears,    \* open subscriptions at each clear-top issued by ngOnDestroy
  postDestroy       \* kinds of broadcaster events emitted after ngOnDestroy

shellVars == <<centerValue, windowModeValue, withScrollValue>>
bodyVars == <<bodyOverflow, bodyClasses>>
topVars == <<veryTopRef, created, listeners>>
widthVars == <<innerWidth, widthReports, resizeSeen, widthAtConstruct>>
loaderVars == <<afterViewInit, loader>>
themeObs == <<themeLast, themeBefore, themeChained>>

vars == <<phase, centerValue, windowModeValue, withScrollValue, bodyOverflow,
          bodyClasses, elClasses, subs, afterViewInit, loader, veryTopRef,
          created, listeners, innerWidth, widthReports, resizeSeen, themeLast,
          themeBefore, themeChained, scrollSet, widthAtConstruct, destroyClears, postDestroy>>

Live == phase \in {"constructed", "attached"}

\* ---------------------------------------------------------------- helpers
\* '../helpers' convertToBoolProperty: strings "true" and "" (a bare
\* attribute) are true, other strings false; booleans are kept.
convertToBoolProperty(val) ==
  IF val.type = "string" THEN val.str \in {"true", ""} ELSE val.str = "true"

\* Renderer2.addClass / removeClass on a class list
addClass(classes, name) == classes \cup {name}
removeClass(classes, name) == classes \ {name}

\* theme.previous as an if-condition: null and "" are falsy
Truthy(s) == s \notin {Null, ""}

ThemeClass(name) == "nb-theme-" \o name

\* Subject.next / Subject.complete on a request's listener.  A completed
\* Subject drops next().  The observer of the listener sees the insertion
\* point as it is at the moment of delivery (topSeen).
SubjectNext(l, v, top) ==
  IF l.closed THEN l
  ELSE [l EXCEPT !.values = Append(@, v), !.topSeen = Append(@, top)]

SubjectComplete(l) == [l EXCEPT !.closed = TRUE]

\* Promise resolve(): only a pending promise changes state
Resolve(p) == IF p = "pending" THEN "resolved" ELSE p

\* The listener the theme service creates for a top request.  live records
\* whether the request was emitted between ngAfterViewInit and the end of
\* ngOnDestroy.
NewListener(kind, component, live) ==
  [kind |-> kind, component |-> component, live |-> live,
   values |-> <<>>, topSeen |-> <<>>, closed |-> FALSE]

\* ------------------------------------------------- services the shell uses
\* NbThemeService.changeWindowWidth: the width-report sink
changeWindowWidth(reports, width) == Append(reports, width)

\* ------------------------------------------------ subscription callbacks
\* faulty variant: the previous theme's class is never removed
themeSubscription_NoRemove(theme) ==
  bodyClasses' = addClass(bodyClasses, ThemeClass(theme.name))

\* themeService.onThemeChange().subscribe(theme => ...)
themeSubscription(theme) ==
  LET removed == IF Truthy(theme.previous)
                 THEN removeClass(bodyClasses, ThemeClass(theme.previous))
                 ELSE bodyClasses
  IN bodyClasses' = addClass(removed, ThemeClass(theme.name))

\* themeService.onAppendLayoutClass().subscribe(className => ...)
appendClassSubscription(className) ==
  elClasses' = addClass(elClasses, className)

\* themeService.onRemoveLayoutClass().subscribe(className => ...)
removeClassSubscription(className) ==
  elClasses' = removeClass(elClasses, className)

\* this.afterViewInit$.subscribe((_) => resolve()): the value is ignored
afterViewInitSubscription(promise, value) == Resolve(promise)

\* faulty variant: createComponent(componentFactory, 0) inserts in front
appendSubscription_InsertFirst(top, n, data) ==
  LET componentRef == [component |-> data.component, id |-> n + 1]
      top1 == <<componentRef>> \o top
      sent == SubjectNext(data, componentRef, top1)
  IN [top |-> top1, created |-> n + 1, listener |-> SubjectComplete(sent)]

\* themeService.onAppendToTop().subscribe(data => ...): the state of the
\* insertion point and of data.listener after the callback
appendSubscription(top, n, data) ==
  LET componentRef == [component |-> data.component, id |-> n + 1]
      top1 == Append(top, componentRef)
      sent == SubjectNext(data, componentRef, top1)
  IN [top |-> top1, created |-> n + 1, listener |-> SubjectComplete(sent)]

\* faulty variant: listener.next(true) before veryTopRef.clear()
clearSubscription_SignalFirst(top, n, data) ==
  [top |-> <<>>, created |-> n, listener |-> SubjectNext(data, TRUE, top)]

\* themeService.onClearLayoutTop().subscribe(data => ...)
clearSubscription(top, n, data) ==
  [top |-> <<>>, created |-> n, listener |-> SubjectNext(data, TRUE, <<>>)]

\* NbThemeService.appendToLayoutTop(component): a new listener, emitted on
\* the append stream to the observers subscribed now (S)
appendToLayoutTop(S, top, n, ls, component, live) ==
  LET data == NewListener("append", component, live)
      r == IF "append" \in S THEN appendSubscription(top, n, data)
           ELSE [top |-> top, created |-> n, listener |-> data]
  IN [top |-> r.top, created |-> r.created, listeners |-> Append(ls, r.listener)]

\* NbThemeService.clearLayoutTop(): a new listener, emitted on the clear
\* stream to the observers subscribed now (S)
clearLayoutTop(S, top, n, ls, live) ==
  LET data == NewListener("clear", "", live)
      r == IF "clear" \in S THEN clearSubscription(top, n, data)
           ELSE [top |-> top, created |-> n, listener |-> data]
  IN [top |-> r.top, created |-> r.created, listeners |-> Append(ls, r.listener)]

\* ------------------------------------------------------------------- Init
Init ==
  /\ phase = "none"
  /\ centerValue = FALSE
  /\ windowModeValue = FALSE
  /\ withScrollValue = FALSE
  /\ bodyOverflow = ""
  /\ bodyClasses = {}
  /\ elClasses = {}
  /\ subs = {}
  /\ afterViewInit = Null
  /\ loader = "none"
  /\ veryTopRef = <<>>
  /\ created = 0
  /\ listeners = <<>>
  /\ innerWidth \in Widths
  /\ widthReports = <<>>
  /\ resizeSeen = <<>>
  /\ themeLast = Null
  /\ themeBefore = Null
  /\ themeChained = TRUE
  /\ scrollSet = FALSE
  /\ widthAtConstruct = 0
  /\ destroyClears = <<>>
  /\ postDestroy = {}

\* ------------------------------------------------------------ lifecycle
\* new NbLayoutComponent(...): field initialisers, then the constructor body
constructor ==
  /\ phase = "none"
  /\ phase' = "constructed"
  /\ centerValue' = FALSE
  /\ windowModeValue' = FALSE
  /\ withScrollValue' = FALSE
  /\ afterViewInit' = Null
  /\ subs' = {"theme", "appendClass", "removeClass"}
  \* a BehaviorSubject hands its current value to a new subscriber at once
  /\ loader' = afterViewInitSubscription("pending", afterViewInit')
  /\ widthReports' = changeWindowWidth(widthReports, innerWidth)
  /\ widthAtConstruct' = innerWidth
  /\ UNCHANGED <<bodyOverflow, bodyClasses, elClasses, topVars, innerWidth,
                 resizeSeen, themeObs, scrollSet, destroyClears, postDestroy>>

ngAfterViewInit ==
  /\ phase = "constructed"
  /\ phase' = "attached"
  /\ subs' = subs \cup {"append", "clear"}
  /\ afterViewInit' = "true"
  /\ loader' = afterViewInitSubscription(loader, afterViewInit')
  /\ UNCHANGED <<shellVars, bodyVars, elClasses, topVars, widthVars, themeObs,
                 scrollSet, destroyClears, postDestroy>>

\* faulty variant: themeSubscription is not released
ngOnDestroy_KeepTheme ==
  /\ Live
  /\ LET r == clearLayoutTop(subs, veryTopRef, created, listeners,
                             phase = "attached")
         released == IF phase = "attached"
                     THEN AllSubscriptions \ {"theme"}
                     ELSE {"appendClass", "removeClass"}
     IN /\ veryTopRef' = r.top
        /\ created' = r.created
        /\ listeners' = r.listeners
        /\ destroyClears' = Append(destroyClears, subs)
        /\ subs' = subs \ released
  /\ phase' = "destroyed"
  /\ UNCHANGED <<shellVars, bodyVars, elClasses, loaderVars, widthVars,
                 themeObs, scrollSet, postDestroy>>

\* faulty variant: the subscriptions are released before clearLayoutTop() is called
ngOnDestroy_ReleaseFirst ==
  /\ Live
  /\ LET released == IF phase = "attached" THEN AllSubscriptions
                     ELSE {"theme", "appendClass", "removeClass"}
         left == subs \ released
         r == clearLayoutTop(left, veryTopRef, created, listeners,
                             phase = "attached")
     IN /\ veryTopRef' = r.top
        /\ created' = r.created
        /\ listeners' = r.listeners
        /\ destroyClears' = Append(destroyClears, left)
        /\ subs' = left
  /\ phase' = "destroyed"
  /\ UNCHANGED <<shellVars, bodyVars, elClasses, loaderVars, widthVars,
                 themeObs, scrollSet, postDestroy>>

\* ngOnDestroy before ngAfterViewInit: appendSubscription is undefined, so
\* line 314 throws after the first three subscriptions are released.
ngOnDestroy ==
  /\ Live
  /\ LET r == clearLayoutTop(subs, veryTopRef, created, listeners,
                             phase = "attached")
         released == IF phase = "attached" THEN AllSubscriptions
                     ELSE {"theme", "appendClass", "removeClass"}
     IN /\ veryTopRef' = r.top
        /\ created' = r.created
        /\ listeners' = r.listeners
        /\ destroyClears' = Append(destroyClears, subs)
        /\ subs' = subs \ released
  /\ phase' = "destroyed"
  /\ UNCHANGED <<shellVars, bodyVars, elClasses, loaderVars, widthVars,
                 themeObs, scrollSet, postDestroy>>

\* ---------------------------------------------------------------- inputs
\* set center(val)
center(val) ==
  /\ Live
  /\ centerValue' = convertToBoolProperty(val)
  /\ UNCHANGED <<phase, windowModeValue, withScrollValue, bodyVars, elClasses,
                 subs, loaderVars, topVars, widthVars, themeObs, scrollSet,
                 destroyClears, postDestroy>>

\* faulty variant: the else branch is missing, the body style is never restored
setWithScroll_NoRestore(val) ==
  /\ withScrollValue' = convertToBoolProperty(val)
  /\ IF withScrollValue'
     THEN bodyOverflow' = "hidden"
     ELSE bodyOverflow' = bodyOverflow

\* the body of set withScroll(val)
setWithScroll(val) ==
  /\ withScrollValue' = convertToBoolProperty(val)
  /\ IF withScrollValue'
     THEN bodyOverflow' = "hidden"
     ELSE bodyOverflow' = "initial"

\* set withScroll(val)
withScroll(val) ==
  /\ Live
  /\ setWithScroll(val)
  /\ scrollSet' = TRUE
  /\ UNCHANGED <<phase, centerValue, windowModeValue, bodyClasses, elClasses,
                 subs, loaderVars, topVars, widthVars, themeObs,
                 destroyClears, postDestroy>>

\* faulty variant: the setter stores the flag and leaves withScroll alone
windowMode_NoCascade(val) ==
  /\ Live
  /\ windowModeValue' = convertToBoolProperty(val)
  /\ scrollSet' = TRUE
  /\ UNCHANGED <<phase, centerValue, withScrollValue, bodyVars, elClasses,
                 subs, loaderVars, topVars, widthVars, themeObs,
                 destroyClears, postDestroy>>

\* set windowMode(val)
windowMode(val) ==
  /\ Live
  /\ windowModeValue' = convertToBoolProperty(val)
  /\ setWithScroll(JsTrue)
  /\ scrollSet' = TRUE
  /\ UNCHANGED <<phase, centerValue, bodyClasses, elClasses, subs, loaderVars,
                 topVars, widthVars, themeObs, destroyClears, postDestroy>>

\* faulty variant: a width equal to the last one reported is not forwarded
onResize_Distinct(width) ==
  widthReports' = IF widthReports # <<>> /\ widthReports[Len(widthReports)] = width
                  THEN widthReports
                  ELSE changeWindowWidth(widthReports, width)

\* @HostListener('window:resize') onResize(event), width = event.target.innerWidth
onResize(width) ==
  widthReports' = changeWindowWidth(widthReports, width)

\* ------------------------------------------------------------ environment
EmittedAfterDestroy(kind) ==
  postDestroy' = IF phase = "destroyed" THEN postDestroy \cup {kind}
                 ELSE postDestroy

\* the window is resized; Angular dispatches the event to a live shell
Resize ==
  \E w \in Widths :
    /\ innerWidth' = w
    /\ IF Live
       THEN /\ Len(resizeSeen) < MaxResize
            /\ resizeSeen' = Append(resizeSeen, w)
            /\ onResize(w)
       ELSE /\ innerWidth # w
            /\ UNCHANGED <<resizeSeen, widthReports>>
    /\ UNCHANGED <<phase, shellVars, bodyVars, elClasses, subs, loaderVars,
                   topVars, widthAtConstruct, themeObs, scrollSet,
                   destroyClears, postDestroy>>

\* NbThemeService emits a theme change
ThemeEvent(n, p) ==
  /\ phase # "none"
  /\ IF "theme" \in subs
     THEN themeSubscription([name |-> n, previous |-> p])
     ELSE UNCHANGED bodyClasses
  /\ themeLast' = IF Live THEN n ELSE themeLast
  /\ themeBefore' = IF Live THEN themeLast ELSE themeBefore
  /\ themeChained' = IF Live THEN themeChained /\ p = themeLast
                     ELSE themeChained
  /\ EmittedAfterDestroy("theme")
  /\ UNCHANGED <<phase, shellVars, bodyOverflow, elClasses, subs, loaderVars,
                 topVars, widthVars, scrollSet, destroyClears>>

ThemeChange ==
  \E n \in ThemeNames, p \in ThemeNames \cup {Null} : ThemeEvent(n, p)

\* NbThemeService.appendLayoutClass(className)
AppendLayoutClass ==
  \E c \in LayoutClasses :
    /\ phase # "none"
    /\ IF "appendClass" \in subs
       THEN appendClassSubscription(c)
       ELSE UNCHANGED elClasses
    /\ EmittedAfterDestroy("appendClass")
    /\ UNCHANGED <<phase, shellVars, bodyVars, subs, loaderVars, topVars,
                   widthVars, themeObs, scrollSet, destroyClears>>

\* NbThemeService.removeLayoutClass(className)
RemoveLayoutClass ==
  \E c \in LayoutClasses :
    /\ phase # "none"
    /\ IF "removeClass" \in subs
       THEN removeClassSubscription(c)
       ELSE UNCHANGED elClasses
    /\ EmittedAfterDestroy("removeClass")
    /\ UNCHANGED <<phase, shellVars, bodyVars, subs, loaderVars, topVars,
                   widthVars, themeObs, scrollSet, destroyClears>>

\* the application asks for a component on top of the layout
AppendToTop ==
  \E c \in Components :
    /\ phase # "none"
    /\ Len(listeners) - Len(destroyClears) < MaxReq
    /\ LET r == appendToLayoutTop(subs, veryTopRef, created, listeners, c,
                                  phase = "attached")
       IN /\ veryTopRef' = r.top
          /\ created' = r.created
          /\ listeners' = r.listeners
    /\ EmittedAfterDestroy("appendTop")
    /\ UNCHANGED <<phase, shellVars, bodyVars, elClasses, subs, loaderVars,
                   widthVars, themeObs, scrollSet, destroyClears>>

\* the application asks to clear the top of the layout
ClearTop ==
  /\ phase # "none"
  /\ Len(listeners) - Len(destroyClears) < MaxReq
  /\ LET r == clearLayoutTop(subs, veryTopRef, created, listeners,
                             phase = "attached")
     IN /\ veryTopRef' = r.top
        /\ created' = r.created
        /\ listeners' = r.listeners
  /\ EmittedAfterDestroy("clearTop")
  /\ UNCHANGED <<phase, shellVars, bodyVars, elClasses, subs, loaderVars,
                 widthVars, themeObs, scrollSet, destroyClears>>

SetInput ==
  \/ \E val \in InputValues : windowMode(val)
  \/ \E val \in InputValues : withScroll(val)
  \/ \E val \in InputValues : center(val)

\* The shell with its inputs, the window and the theme and layout-class
\* streams: everything that writes to the document body, the host element
\* and the width sink.
Next ==
  \/ constructor
  \/ ngAfterViewInit
  \/ ngOnDestroy
  \/ SetInput
  \/ Resize
  \/ ThemeChange
  \/ AppendLayoutClass
  \/ RemoveLayoutClass

Spec == Init /\ [][Next]_vars

\* The shell with the five broadcaster streams: everything that writes to
\* the insertion point and the request listeners.
NextTop ==
  \/ constructor
  \/ ngAfterViewInit
  \/ ngOnDestroy
  \/ ThemeChange
  \/ AppendLayoutClass
  \/ RemoveLayoutClass
  \/ AppendToTop
  \/ ClearTop

SpecTop == Init /\ [][NextTop]_vars

\* ================================================================ claims
ThemeClasses == {ThemeClass(n) : n \in ThemeNames}

\* the requests emitted between ngAfterViewInit and the end of ngOnDestroy
LiveAppend(i) == listeners[i].kind = "append" /\ listeners[i].live
LiveClear(i) == listeners[i].kind = "clear" /\ listeners[i].live

\* index of the last clear request served (0 when there is none)
LastLiveClear ==
  LET S == {i \in DOMAIN listeners : LiveClear(i)}
  IN IF S = {} THEN 0 ELSE CHOOSE i \in S : \A j \in S : j <= i

\* the instances delivered to the append requests served since that clear,
\* in the order the requests arrived
DeliveredSinceClear ==
  LET later == SubSeq(listeners, LastLiveClear + 1, Len(listeners))
      served == SelectSeq(later, LAMBDA l : l.kind = "append" /\ l.live)
  IN [k \in 1..Len(served) |-> served[k].values[1]]

\* C1: setting windowMode to a value that coerces to true leaves
\* withScrollValue true and the body's overflow style hidden, from every
\* reachable state of the shell.
C1_WindowModeTrueForcesWithScroll ==
  [][\A val \in InputValues :
       (convertToBoolProperty(val) /\ windowMode(val))
         => (withScrollValue' /\ bodyOverflow' = "hidden")]_vars

C1_Witness ==
  /\ windowModeValue
  /\ withScrollValue
  /\ bodyOverflow = "hidden"
  /\ centerValue

\* C2: the loader registered in the constructor is resolved exactly when
\* ngAfterViewInit has run (afterViewInit$ holds true): never before it, and
\* always after it.
C2_LoaderResolvedOnlyAfterViewInit ==
  loader = "resolved" <=> afterViewInit = "true"

\* C3: while the theme events dispatched to the live shell form a chain
\* (first previous is null, each later previous is the name before it), the
\* body carries the theme class of the last event's name and no other theme
\* class; and an event without previous only adds a class to the body.
C3_BodyCarriesCurrentTheme ==
  /\ []((themeChained /\ themeLast # Null)
          => bodyClasses \cap ThemeClasses = {ThemeClass(themeLast)})
  /\ [][\A n \in ThemeNames :
          (Live /\ ThemeEvent(n, Null))
            => bodyClasses' = bodyClasses \cup {ThemeClass(n)}]_vars

C3_Witness ==
  /\ themeChained
  /\ themeBefore = "a"
  /\ themeLast = "b"
  /\ bodyClasses = {ThemeClass("b")}

\* C4: every append request emitted while the shell is attached received
\* exactly one value, an instance of the requested component that was in the
\* insertion point when it was delivered, and its listener is closed; the
\* instances are pairwise distinct, and the insertion point holds exactly the
\* instances delivered since the last served clear, in arrival order.
C4_AppendServedOnceInOrder ==
  /\ \A i \in DOMAIN listeners :
       LiveAppend(i) =>
         /\ Len(listeners[i].values) = 1
         /\ listeners[i].closed
         /\ listeners[i].values[1].component = listeners[i].component
         /\ \E k \in DOMAIN listeners[i].topSeen[1] :
              listeners[i].topSeen[1][k] = listeners[i].values[1]
  /\ \A i, j \in DOMAIN listeners :
       (LiveAppend(i) /\ LiveAppend(j) /\ i # j)
         => listeners[i].values[1] # listeners[j].values[1]
  /\ veryTopRef = DeliveredSinceClear

C4_Witness ==
  /\ phase = "attached"
  /\ Len(veryTopRef) = 2
  /\ veryTopRef[1].component = "Modal"
  /\ veryTopRef[2].component = "Spinner"
  /\ LastLiveClear > 0

\* C5: every clear request emitted while the shell is attached received the
\* value true exactly once, delivered when the insertion point was already
\* empty; and the insertion point is empty as long as no later append is
\* served.
C5_ClearEmptiesThenSignals ==
  \A i \in DOMAIN listeners :
    LiveClear(i) =>
      /\ listeners[i].values = <<TRUE>>
      /\ listeners[i].topSeen = << <<>> >>
      /\ (\A j \in DOMAIN listeners : j > i => ~LiveAppend(j))
           => veryTopRef = <<>>

C5_Witness ==
  /\ phase = "attached"
  /\ Len(listeners) = 3
  /\ LiveAppend(1)
  /\ LiveAppend(2)
  /\ LiveClear(3)

\* C6: once ngOnDestroy has run, no step changes the body's class list, the
\* host element's class list or the insertion point, and no listener receives
\* a value.
C6_InertAfterDestroy ==
  [][phase = "destroyed" =>
       /\ bodyClasses' = bodyClasses
       /\ elClasses' = elClasses
       /\ veryTopRef' = veryTopRef
       /\ \A i \in DOMAIN listeners' :
            listeners'[i].values =
              IF i \in DOMAIN listeners THEN listeners[i].values ELSE <<>>]_vars

C6_Witness ==
  /\ phase = "destroyed"
  /\ postDestroy = BroadcastKinds

\* C7: setting windowMode to a value that coerces to false leaves
\* withScrollValue and the body's overflow style as they were.
C7_WindowModeFalseKeepsWithScroll ==
  [][\A val \in InputValues :
       (~convertToBoolProperty(val) /\ windowMode(val))
         => (withScrollValue' = withScrollValue /\ bodyOverflow' = bodyOverflow)]_vars

\* C8: once withScroll or windowMode has been set, the body's overflow style
\* is hidden exactly when withScrollValue is true and initial exactly when it
\* is false, in every state.
C8_OverflowFollowsWithScroll ==
  scrollSet =>
    /\ (bodyOverflow = "hidden" <=> withScrollValue)
    /\ (bodyOverflow = "initial" <=> ~withScrollValue)

C8_Witness ==
  /\ scrollSet
  /\ windowModeValue
  /\ centerValue
  /\ ~withScrollValue
  /\ bodyOverflow = "initial"

\* C9: nothing is forwarded before construction; from construction on the
\* forwarded widths are the viewport width at construction followed by the
\* width of each resize event dispatched to the shell, one per event and in
\* event order.
C9_OneReportPerResize ==
  widthReports = IF phase = "none" THEN <<>>
                 ELSE <<widthAtConstruct>> \o resizeSeen

C9_Witness ==
  /\ Len(resizeSeen) = 2
  /\ resizeSeen[1] = resizeSeen[2]
  /\ widthAtConstruct # resizeSeen[1]

====
